---- MODULE Spec2Model ----
(***************************************************************************)
(* StaffSlackBot: the Slack "guess who" bot.                               *)
(*                                                                         *)
(* Three threads share one sqlite database (tables users and challenges)   *)
(* and one in-memory queue:                                                *)
(*   MonitorSlack   (Poller)    classes.py 62-105                          *)
(*   ProcessQueue   (Processor) classes.py 108-258                         *)
(*   ScheduleThread (Scheduler) classes.py 261-329                         *)
(* Every SQL statement runs on its own connection (sql.py), so one SQL     *)
(* statement is one atomic step of the model; the steps of the three       *)
(* threads interleave freely.                                              *)
(*                                                                         *)
(* Texts are sequences of one-character strings, so that lower(), strip(), *)
(* split(), startswith() and the mention pattern are computed.  Slack ids  *)
(* and channel ids are strings.  A challenge_datetime is the pair <<t, n>>: *)
(* t the clock reading in seconds and n the sub-second part, which is      *)
(* different for every call of utcnow() (n counts the issued challenges).  *)
(***************************************************************************)
EXTENDS Integers, Sequences, FiniteSets, Bags, TLC

VARIABLES
    users,          \* table users: slack_id -> row
    challenges,     \* table challenges: set of <<slack_id, challenge>> rows
    SLACK_EVENTS_Q, \* settings.SLACK_EVENTS_Q: FIFO of SlackEvent
    now,            \* the clock (seconds)
    issued,         \* number of challenges stored so far (sub-second serial)
    sent,           \* bag of the chat.postMessage calls made
    evLeft,         \* raw events the platform will still deliver
    stop,           \* _stop_event of each thread
    mon,            \* MonitorSlack: program counter and locals
    proc,           \* ProcessQueue: program counter and locals
    sched,          \* ScheduleThread: program counter and locals
    nEnq,           \* history: number of SlackEvents put on the queue
    nDeq,           \* history: number of SlackEvents taken from the queue
    nDone,          \* history: number of SlackEvents whose handling finished
    round           \* history: per user, the targets returned since the last round reset

vars == <<users, challenges, SLACK_EVENTS_Q, now, issued, sent, evLeft, stop,
          mon, proc, sched, nEnq, nDeq, nDone, round>>

-----------------------------------------------------------------------------
(* Bounds of the model *)

\* raw events the platform delivers in a run of Spec
MaxEvents == 2
\* raw events the platform delivers in a run of SpecRot
MaxRotEvents == 7
\* the clock stops advancing here
MaxTime == 30
\* directory syncs the scheduler runs after start-up
MaxSyncs == 1

(* Program constants *)

CHALLENGE_TIMEOUT == 30

\* the steps by which the clock advances
Delays == {30}

-----------------------------------------------------------------------------
(* Python values *)

\* None; also the empty string, which every nullable field stores as None
None == <<>>
Some(x) == <<x>>
Val(o) == o[1]

NoId == "None"

Threads == {"monitor", "process", "schedule"}

-----------------------------------------------------------------------------
(* Texts *)

UpperCase == <<"A","B","C","D","E","F","G","H","I","J","K","L","M",
               "N","O","P","Q","R","S","T","U","V","W","X","Y","Z">>
LowerCase == <<"a","b","c","d","e","f","g","h","i","j","k","l","m",
               "n","o","p","q","r","s","t","u","v","w","x","y","z">>

\* the letter of the other case, for every letter that has one
ToLower == [c \in {UpperCase[i] : i \in 1..26} |->
               LowerCase[CHOOSE i \in 1..26 : UpperCase[i] = c]]
ToUpper == [c \in {LowerCase[i] : i \in 1..26} |->
               UpperCase[CHOOSE i \in 1..26 : LowerCase[i] = c]]

lower_char(c) == IF c \in DOMAIN ToLower THEN ToLower[c] ELSE c
upper_char(c) == IF c \in DOMAIN ToUpper THEN ToUpper[c] ELSE c

\* str.lower(), str.upper()
lower(s) == [i \in 1..Len(s) |-> lower_char(s[i])]
upper(s) == [i \in 1..Len(s) |-> upper_char(s[i])]

IsSpace(c) == c = " "

\* str.strip()
RECURSIVE lstrip(_)
lstrip(s) == IF s # <<>> /\ IsSpace(Head(s)) THEN lstrip(Tail(s)) ELSE s
RECURSIVE rstrip(_)
rstrip(s) == IF s # <<>> /\ IsSpace(s[Len(s)]) THEN rstrip(SubSeq(s, 1, Len(s) - 1)) ELSE s
strip(s) == rstrip(lstrip(s))

\* str.split(): the whitespace-delimited tokens, in order
RECURSIVE split_from(_, _, _)
split_from(s, word, acc) ==
    IF s = <<>> THEN (IF word = <<>> THEN acc ELSE Append(acc, word))
    ELSE IF IsSpace(Head(s))
         THEN split_from(Tail(s), <<>>, IF word = <<>> THEN acc ELSE Append(acc, word))
         ELSE split_from(Tail(s), Append(word, Head(s)), acc)
split(s) == split_from(s, <<>>, <<>>)

\* mutant: every text counts as starting with the prefix
startswith_any(s, prefix) == TRUE

\* str.startswith(prefix)
startswith(s, prefix) == Len(s) >= Len(prefix) /\ SubSeq(s, 1, Len(prefix)) = prefix

\* str.title() of one word of letters
title(w) == IF w = <<>> THEN w ELSE <<upper_char(Head(w))>> \o lower(Tail(w))

PLAY_GAME == <<"p","l","a","y">>

-----------------------------------------------------------------------------
(* The directory: Slack ids, channels and profiles *)

Ids == {"U1", "U2", "U3"}

\* StringField(upper_case=True) / NullStringField(upper_case=True) on an id
upper_id(x) ==
    CASE x = "u1" -> "U1"
      [] x = "u2" -> "U2"
      [] x = "u3" -> "U3"
      [] x = "d1" -> "D1"
      [] x = "d2" -> "D2"
      [] x = "d3" -> "D3"
      [] OTHER -> x

\* conversations.list: the IM channel of each member
ImChannel == [u \in Ids |-> CASE u = "U1" -> "D1" [] u = "U2" -> "D2" [] OTHER -> "D3"]

\* profile.real_name_normalized and profile.display_name_normalized of each member
RealName ==
    [u \in Ids |-> CASE u = "U1" -> <<"A","n","n"," ","L","e","e">>
                     [] u = "U2" -> <<"B","o","b"," ","R","a","y">>
                     [] OTHER    -> <<"C","y"," ","P","o","e">>]
DisplayName ==
    [u \in Ids |-> CASE u = "U1" -> <<"A","n","n","i","e">>
                     [] u = "U2" -> <<>>
                     [] OTHER    -> <<"C","y">>]

\* what users.list says of a member: active, inactive (deleted, bot, no email) or absent
Status == {"active", "inactive", "absent"}
AllActive == [u \in Ids |-> "active"]
\* the rosters a directory sync may fetch
Rosters ==
    { AllActive,
      [AllActive EXCEPT !["U1"] = "inactive"],
      [AllActive EXCEPT !["U2"] = "inactive"] }

-----------------------------------------------------------------------------
(* models.py: class User over the table users *)

\* NullStringField.__set__ on a text
NullStringField(value) == IF value = <<>> THEN None ELSE lower(value)

\* User.parse_slack_data followed by the channel assignment of get_users_from_slack
parse_slack_data(u) ==
    [slack_id           |-> upper_id(u),
     slack_channel      |-> upper_id(ImChannel[u]),
     full_name          |-> NullStringField(RealName[u]),
     pref_name          |-> NullStringField(DisplayName[u]),
     challenge          |-> NoId,
     challenge_datetime |-> None,
     can_play_game      |-> TRUE]

\* User._serialise: the column values of a User object
\* (True is stored as 1, False as 0, None as NULL)
_serialise(self) ==
    [slack_id           |-> self.slack_id,
     slack_channel      |-> self.slack_channel,
     full_name          |-> self.full_name,
     pref_name          |-> self.pref_name,
     challenge          |-> self.challenge,
     challenge_datetime |-> self.challenge_datetime,
     can_play_game      |-> IF self.can_play_game THEN Some(1) ELSE Some(0)]

\* User._deserialise: the User object of a stored row
_deserialise(row) ==
    [slack_id           |-> upper_id(row.slack_id),
     slack_channel      |-> row.slack_channel,
     full_name          |-> row.full_name,
     pref_name          |-> row.pref_name,
     challenge          |-> row.challenge,
     challenge_datetime |-> row.challenge_datetime,
     can_play_game      |-> row.can_play_game = Some(1)]

\* mutant: the query has no WHERE clause, a missing id gets the first row
User_get_any_row(tbl, slack_id) ==
    IF slack_id = NoId \/ tbl = << >> THEN None
    ELSE IF slack_id \in DOMAIN tbl THEN Some(_deserialise(tbl[slack_id]))
    ELSE Some(_deserialise(tbl[CHOOSE u \in DOMAIN tbl : TRUE]))

\* User.get(slack_id=...): None for a null id or a missing row
User_get(tbl, slack_id) ==
    IF slack_id = NoId \/ slack_id \notin DOMAIN tbl
    THEN None
    ELSE Some(_deserialise(tbl[slack_id]))

\* mutant: the challenge columns are written to every row
_update_challenge_of_all(tbl, self) ==
    IF self.slack_id \notin DOMAIN tbl THEN tbl
    ELSE [x \in DOMAIN tbl |->
            IF x = self.slack_id
            THEN [_serialise(self) EXCEPT
                    !.can_play_game = IF self.can_play_game THEN Some(1) ELSE None]
            ELSE [tbl[x] EXCEPT !.challenge = self.challenge,
                                !.challenge_datetime = self.challenge_datetime]]

\* User._update: every column is overwritten by the attribute of self, a falsy
\* attribute by NULL; UPDATE ... WHERE slack_id matches no row once the row is gone
_update(tbl, self) ==
    IF self.slack_id \notin DOMAIN tbl THEN tbl
    ELSE [tbl EXCEPT ![self.slack_id] =
            [_serialise(self) EXCEPT
                !.can_play_game = IF self.can_play_game THEN Some(1) ELSE None]]

\* the INSERT of User.save: the primary key rejects a second row of the same id
insert_fails(tbl, self) == self.slack_id \in DOMAIN tbl
insert_user(tbl, self) ==
    [x \in DOMAIN tbl \cup {self.slack_id} |->
        IF x = self.slack_id THEN _serialise(self) ELSE tbl[x]]

\* the DELETE of User.delete: with foreign keys enforced, a user that rows of
\* challenges reference (challenges.slack_id) cannot be deleted
delete_fails(tbl, hist, slack_id) == \E row \in hist : row[1] = slack_id
delete_user(tbl, slack_id) == [x \in DOMAIN tbl \ {slack_id} |-> tbl[x]]

\* User.first_name
first_name(self) ==
    IF self.full_name # None THEN title(Head(split(self.full_name))) ELSE None

\* mutant: the preferred name is forgotten
all_names_of_full_name(self) ==
    LET words(s) == {split(s)[i] : i \in 1..Len(split(s))}
    IN  IF self.full_name # None THEN words(self.full_name) ELSE {}

\* User.all_names
all_names(self) ==
    LET words(s) == {split(s)[i] : i \in 1..Len(split(s))}
    IN  (IF self.full_name # None THEN words(self.full_name) ELSE {})
        \cup (IF self.pref_name # None THEN words(self.pref_name) ELSE {})

\* mutant: the user itself is not excluded
get_all_valid_users_and_self(tbl, self) ==
    {x \in DOMAIN tbl : tbl[x].can_play_game = Some(1)}

\* User.get_all_valid_users: the ids of the other users that can be challenge targets
get_all_valid_users(tbl, self) ==
    {x \in DOMAIN tbl : x # self.slack_id /\ tbl[x].can_play_game = Some(1)}

\* User.get_all_other_users, which issue_challenge calls: the eligible-others set
get_all_other_users(tbl, self) == get_all_valid_users(tbl, self)

\* the SELECT of get_next_challenge / issue_challenge: the targets already issued
\* to slack_id (the join drops every row once the user is gone)
current_challenges(tbl, hist, slack_id) ==
    IF slack_id \in DOMAIN tbl THEN {row[2] : row \in {r \in hist : r[1] = slack_id}} ELSE {}

\* mutant: the targets already issued are not excluded
available_challenges_all(all_users, current) == all_users

\* set(all_users).difference(set(current_challenges))
available_challenges(all_users, current) == all_users \ current

\* mutant: the round is not reset
reset_challenges_kept(hist, slack_id) == hist

\* DELETE FROM challenges WHERE slack_id = ?
reset_challenges(hist, slack_id) == {row \in hist : row[1] # slack_id}

\* INSERT INTO challenges: the foreign key rejects a row of a user that is gone
insert_challenge_fails(tbl, slack_id) == slack_id \notin DOMAIN tbl
\* mutant: the pick is not recorded
insert_challenge_skipped(hist, slack_id, new_challenge) == hist

insert_challenge(hist, slack_id, new_challenge) == hist \cup {<<slack_id, new_challenge>>}

-----------------------------------------------------------------------------
(* classes.py: SlackEvent and the classification of raw events *)

STAFF_BOT_ID == <<"U","9">>

NoMatch == [matched |-> FALSE, id |-> <<>>, rest |-> <<>>]

\* the text up to the first line break, which is all that "." matches
first_line(s) ==
    IF \E i \in 1..Len(s) : s[i] = "\n"
    THEN SubSeq(s, 1, (CHOOSE i \in 1..Len(s) : s[i] = "\n" /\ \A j \in 1..(i-1) : s[j] # "\n") - 1)
    ELSE s

\* SlackEvent.parse_direct_mention: re.search("^<@(|[WU].+?)>(.*)", text, IGNORECASE)
\* gives (group 1, group 2 stripped), or (None, None) without a match.
\* Group 1 is empty, or W or U and at least one more character, as short as possible.
parse_direct_mention(message_text) ==
    LET line == first_line(message_text)
        n == Len(line)
        \* the positions of a ">" that can close the mention
        closers == {i \in 3..n : line[i] = ">" /\
                       (i = 3 \/ (i >= 5 /\ upper_char(line[3]) \in {"W", "U"}))}
    IN  IF n >= 3 /\ line[1] = "<" /\ line[2] = "@" /\ closers # {}
        THEN LET i == CHOOSE k \in closers : \A j \in closers : k <= j
             IN  [matched |-> TRUE,
                  id      |-> SubSeq(line, 3, i - 1),
                  rest    |-> strip(SubSeq(line, i + 1, n))]
        ELSE NoMatch

\* SlackEvent.is_direct_message: SELECT * FROM users WHERE slack_channel = ?
is_direct_message(tbl, channel) == \E u \in DOMAIN tbl : tbl[u].slack_channel = channel

\* SlackEvent.__init__: StringField(upper_case=True) on user, StringField() on
\* message; either raises ValueError on an empty value
SlackEvent_fails(user, message) == user = "" \/ message = <<>>
\* mutant: the message is trimmed
SlackEvent_trimmed(user, message) == [user |-> upper_id(user), message |-> lower(strip(message))]

SlackEvent(user, message) == [user |-> upper_id(user), message |-> lower(message)]

\* mutant: only mentions of the bot are queued
classify_mentions_only(tbl, event) ==
    IF event.type = "message" /\ ~event.subtype /\ parse_direct_mention(event.text).matched
       /\ parse_direct_mention(event.text).id = STAFF_BOT_ID
       /\ parse_direct_mention(event.text).rest # <<>>
    THEN "mention" ELSE "ignore"

\* the decision of MonitorSlack.queue_slack_events on one raw event:
\* "mention", "direct" or "ignore".  The directory lookup is made only when the
\* event is no mention of the bot with a text.
classify(tbl, event) ==
    IF event.type = "message" /\ ~event.subtype
    THEN LET m == parse_direct_mention(event.text)
         IN  IF m.matched /\ m.id = STAFF_BOT_ID /\ m.rest # <<>> THEN "mention"
             ELSE IF is_direct_message(tbl, event.channel) THEN "direct"
             ELSE "ignore"
    ELSE "ignore"

\* history: the SlackEvent with its place in the order of the puts
Stamp(e, n) == [user |-> e.user, message |-> e.message, seq |-> n]

\* mutant: the newest item is taken first
queue_get_newest(q) == [item |-> q[Len(q)], rest |-> SubSeq(q, 1, Len(q) - 1)]

\* queue.Queue: put and get
queue_put(q, item) == Append(q, item)
queue_get(q) == [item |-> Head(q), rest |-> Tail(q)]

-----------------------------------------------------------------------------
(* Raw events of the platform *)

Raw(user, channel, text) ==
    [type |-> "message", subtype |-> FALSE, text |-> text, user |-> user, channel |-> channel]

\* the raw events rtm_read delivers in Spec
RawEvents ==
    { Raw("U1", "D1", <<"p","l","a","y">>),
      Raw("U1", "D1", <<"B","o","b">>),
      Raw("U2", "C0", <<"<","@","U","9",">"," ","P","l","a","y">>) }

\* the raw events rtm_read delivers in SpecRot: two users who keep playing
RotEvents ==
    { Raw("U1", "D1", <<"p","l","a","y">>),
      Raw("U2", "D2", <<"p","l","a","y">>) }

-----------------------------------------------------------------------------
(* Initial state: staff_bot.py has connected, run get_users_from_slack once on *)
(* a roster whose members are all active, and created the challenges table.   *)

\* last (history): the raw event of the last pass of the loop over a batch
MonIdle == [pc |-> "read", batch |-> <<>>, last |-> None]

\* history: the challenge a message is about (the target and its datetime)
NoChallenge == [challenge |-> NoId, at |-> None]
AboutChallenge(user) == [challenge |-> user.challenge, at |-> user.challenge_datetime]

ProcIdle ==
    [pc |-> "get", event |-> None, user |-> None, challenge_user |-> None,
     all_users |-> {}, available |-> {}, new_challenge |-> NoId, reset |-> FALSE,
     in_db |-> FALSE, message |-> None, next |-> "check",
     branch |-> "none", replies |-> 0, about |-> NoChallenge]

SchedIdle ==
    [pc |-> "run_pending", ran |-> {}, rows |-> {}, row |-> None,
     user |-> None, challenge_user |-> None, in_db |-> FALSE,
     members |-> <<>>, roster |-> AllActive, next |-> "job_done", syncs |-> 0]

\* hist: the rows the table challenges holds from an earlier run of the program
\* (create_challenges_table keeps an existing table)
InitWith(events, hist) ==
    /\ users = [u \in Ids |-> _serialise(parse_slack_data(u))]
    /\ challenges = hist
    /\ SLACK_EVENTS_Q = <<>>
    /\ now = 0
    /\ issued = 0
    /\ sent = EmptyBag
    /\ evLeft = events
    /\ stop = [t \in Threads |-> FALSE]
    /\ mon = MonIdle
    /\ proc = ProcIdle
    /\ sched = SchedIdle
    /\ nEnq = 0
    /\ nDeq = 0
    /\ nDone = 0
    /\ round = [u \in Ids |-> {row[2] : row \in {r \in hist : r[1] = u}}]

Init == InitWith(MaxEvents, {})

\* the clock advances
Tick ==
    /\ \E d \in Delays : now + d <= MaxTime /\ now' = now + d
    /\ UNCHANGED <<users, challenges, SLACK_EVENTS_Q, issued, sent, evLeft, stop,
                   mon, proc, sched, nEnq, nDeq, nDone, round>>

\* mutant: the stop flag is not looked at
stopped_never(t) == FALSE

\* the stop check that ends an iteration of each thread's loop
stopped(t) == stop[t]

-----------------------------------------------------------------------------
(* MonitorSlack *)

MaxBatch == 2

\* the batches rtm_read may return: up to MaxBatch of the remaining raw events
Batches(events) ==
    {b \in UNION {[1..n -> events] : n \in 0..MaxBatch} : Len(b) <= evLeft}

\* queue_slack_events, lines 81-90: one pass of the loop over the batch, and
\* with the last event of the batch run, lines 96-99: sleep, then the stop check.
\* A SlackEvent that cannot be built ends the thread (ValueError).
MonPass(batch) ==
    \E event \in {Head(batch)} :
    \E kind \in {classify(users, event)} :
    \E message \in {IF kind = "mention" THEN parse_direct_mention(event.text).rest
                     ELSE event.text} :
    \E after \in {IF Tail(batch) # <<>>
                   THEN [pc |-> "classify", batch |-> Tail(batch), last |-> Some(event)]
                   ELSE [pc |-> IF stopped("monitor") THEN "done" ELSE "read",
                         batch |-> <<>>, last |-> Some(event)]} :
        IF kind = "ignore"
        THEN /\ mon' = after
             /\ UNCHANGED <<SLACK_EVENTS_Q, nEnq>>
        ELSE IF SlackEvent_fails(event.user, message)
        THEN /\ mon' = [pc |-> "crashed", batch |-> <<>>, last |-> Some(event)]
             /\ UNCHANGED <<SLACK_EVENTS_Q, nEnq>>
        ELSE /\ SLACK_EVENTS_Q' =
                   queue_put(SLACK_EVENTS_Q, Stamp(SlackEvent(event.user, message), nEnq + 1))
             /\ nEnq' = nEnq + 1
             /\ mon' = after

\* queue_slack_events, line 80: rtm_read returns a batch, and the first pass of
\* the loop over it (the read touches no shared state)
MonRead(events) ==
    /\ mon.pc = "read"
    /\ \E b \in Batches(events) :
        /\ b # <<>>
        /\ evLeft' = evLeft - Len(b)
        /\ MonPass(b)
    /\ UNCHANGED <<users, challenges, now, issued, sent, stop,
                   proc, sched, nDeq, nDone, round>>

\* run, lines 95-99: rtm_read returns no event; sleep, then the stop check
MonEmpty ==
    /\ mon.pc = "read"
    /\ mon' = [mon EXCEPT !.pc = IF stopped("monitor") THEN "done" ELSE "read"]
    /\ UNCHANGED <<users, challenges, SLACK_EVENTS_Q, now, issued, sent, evLeft, stop,
                   proc, sched, nEnq, nDeq, nDone, round>>

\* queue_slack_events, lines 81-90: the next pass of the loop over the batch
MonClassify ==
    /\ mon.pc = "classify"
    /\ MonPass(mon.batch)
    /\ UNCHANGED <<users, challenges, now, issued, sent, evLeft, stop,
                   proc, sched, nDeq, nDone, round>>

-----------------------------------------------------------------------------
(* ProcessQueue *)

Message(kind, name) == [kind |-> kind, name |-> name]

\* one chat.postMessage call: the channel and the text, and (history) the user
\* and the challenge the text is about
Post(user, message, challenge, at) ==
    [channel |-> user.slack_channel, kind |-> message.kind, name |-> message.name,
     user |-> user.slack_id, challenge |-> challenge, at |-> at]

\* mutant: the play-command of a user that has a challenge starts a new one
route_play_first(event, user) ==
    IF user # None /\ Val(user).challenge # NoId /\ ~startswith(event.message, PLAY_GAME)
    THEN "resolve"
    ELSE IF user # None THEN "issue"
    ELSE "nouser"

\* run, lines 243-248: where an event goes, given the user just loaded
route(event, user) ==
    IF user # None /\ Val(user).challenge # NoId THEN "resolve"
    ELSE IF user # None THEN "issue"
    ELSE "nouser"

\* resolve_challenge, lines 125-138: the reply
resolve_message(event, challenge_user) ==
    IF challenge_user = None THEN Message("syserror", None)
    ELSE IF lower(event.message) \in all_names(Val(challenge_user)) THEN Message("correct", None)
    ELSE Message("wrong", first_name(Val(challenge_user)))

\* mutant: only the target is removed, the datetime stays
clear_challenge_target_only(user) == [user EXCEPT !.challenge = NoId]

\* mutant: the challenge is not removed
clear_challenge_nothing(user) == user

\* resolve_challenge, lines 141-142: the challenge is removed from the object
clear_challenge(user) == [user EXCEPT !.challenge = NoId, !.challenge_datetime = None]

\* mutant: the user is given itself as the challenge
set_challenge_to_self(user, new_challenge, at) ==
    [user EXCEPT !.challenge = upper_id(user.slack_id), !.challenge_datetime = at]

\* issue_challenge, lines 195-196: the challenge is set on the object
set_challenge(user, new_challenge, at) ==
    [user EXCEPT !.challenge = upper_id(new_challenge), !.challenge_datetime = at]

\* run, line 237: an event is waiting
ProcGet ==
    /\ proc.pc = "get"
    /\ SLACK_EVENTS_Q # <<>>
    /\ proc' = [ProcIdle EXCEPT !.pc = "load", !.event = Some(queue_get(SLACK_EVENTS_Q).item)]
    /\ SLACK_EVENTS_Q' = queue_get(SLACK_EVENTS_Q).rest
    /\ nDeq' = nDeq + 1
    /\ UNCHANGED <<users, challenges, now, issued, sent, evLeft, stop,
                   mon, sched, nEnq, nDone, round>>

\* run, lines 237-239: queue.Empty after QUEUE_TIMEOUT
ProcTimeout ==
    /\ proc.pc = "get"
    /\ SLACK_EVENTS_Q = <<>>
    /\ proc' = [ProcIdle EXCEPT !.pc = "check"]
    /\ UNCHANGED <<users, challenges, SLACK_EVENTS_Q, now, issued, sent, evLeft, stop,
                   mon, sched, nEnq, nDeq, nDone, round>>

\* run, lines 242-248, and issue_challenge, line 155
ProcLoad ==
    /\ proc.pc = "load"
    /\ LET event == Val(proc.event)
           user == User_get(users, event.user)
           to == route(event, user)
       IN  /\ proc' =
                CASE to = "resolve" ->
                        [proc EXCEPT !.pc = "res_get", !.user = user, !.branch = "resolve",
                                     !.about = AboutChallenge(Val(user))]
                  [] to = "issue" /\ startswith(event.message, PLAY_GAME) ->
                        [proc EXCEPT !.pc = "iss_users", !.user = user, !.branch = "issue"]
                  [] to = "issue" ->
                        [proc EXCEPT !.pc = "send", !.user = user, !.branch = "help",
                                     !.message = Some(Message("help", None))]
                  [] OTHER ->
                        [proc EXCEPT !.pc = "check", !.branch = "nouser"]
           /\ nDone' = IF to = "nouser" THEN nDone + 1 ELSE nDone
    /\ UNCHANGED <<users, challenges, SLACK_EVENTS_Q, now, issued, sent, evLeft, stop,
                   mon, sched, nEnq, nDeq, round>>

\* resolve_challenge, lines 125-142
ProcResolveGet ==
    /\ proc.pc = "res_get"
    /\ \E challenge_user \in {User_get(users, Val(proc.user).challenge)} :
       \E message \in {resolve_message(Val(proc.event), challenge_user)} :
           proc' = [proc EXCEPT
                !.pc = "save_get",
                !.next = "send",
                !.challenge_user = challenge_user,
                !.message = Some(message),
                !.user = Some(clear_challenge(Val(proc.user)))]
    /\ UNCHANGED <<users, challenges, SLACK_EVENTS_Q, now, issued, sent, evLeft, stop,
                   mon, sched, nEnq, nDeq, nDone, round>>

\* User.save, line 128: is the user in the table?
ProcSaveGet ==
    /\ proc.pc = "save_get"
    /\ proc' = [proc EXCEPT !.pc = "save_write",
                            !.in_db = User_get(users, Val(proc.user).slack_id) # None]
    /\ UNCHANGED <<users, challenges, SLACK_EVENTS_Q, now, issued, sent, evLeft, stop,
                   mon, sched, nEnq, nDeq, nDone, round>>

\* User.save, lines 129-135: UPDATE the row, or INSERT it
ProcSaveWrite ==
    /\ proc.pc = "save_write"
    /\ IF proc.in_db
       THEN /\ users' = _update(users, Val(proc.user))
            /\ proc' = [proc EXCEPT !.pc = proc.next]
       ELSE IF insert_fails(users, Val(proc.user))
       THEN /\ proc' = [ProcIdle EXCEPT !.pc = "crashed"]
            /\ UNCHANGED users
       ELSE /\ users' = insert_user(users, Val(proc.user))
            /\ proc' = [proc EXCEPT !.pc = proc.next]
    /\ UNCHANGED <<challenges, SLACK_EVENTS_Q, now, issued, sent, evLeft, stop,
                   mon, sched, nEnq, nDeq, nDone, round>>

\* issue_challenge, lines 157-164
ProcIssueUsers ==
    /\ proc.pc = "iss_users"
    /\ LET all_users == get_all_other_users(users, Val(proc.user))
       IN  proc' = IF all_users = {}
                   THEN [proc EXCEPT !.pc = "send",
                                     !.message = Some(Message("nousers", None))]
                   ELSE [proc EXCEPT !.pc = "iss_hist", !.all_users = all_users]
    /\ UNCHANGED <<users, challenges, SLACK_EVENTS_Q, now, issued, sent, evLeft, stop,
                   mon, sched, nEnq, nDeq, nDone, round>>

\* issue_challenge, lines 165-181
ProcIssueHistory ==
    /\ proc.pc = "iss_hist"
    /\ LET current == current_challenges(users, challenges, Val(proc.user).slack_id)
           available == available_challenges(proc.all_users, current)
       IN  proc' = IF available = {}
                   THEN [proc EXCEPT !.pc = "iss_reset"]
                   ELSE [proc EXCEPT !.pc = "iss_insert", !.available = available]
    /\ UNCHANGED <<users, challenges, SLACK_EVENTS_Q, now, issued, sent, evLeft, stop,
                   mon, sched, nEnq, nDeq, nDone, round>>

\* issue_challenge, lines 182-185: a new round
ProcIssueReset ==
    /\ proc.pc = "iss_reset"
    /\ challenges' = reset_challenges(challenges, Val(proc.user).slack_id)
    /\ proc' = [proc EXCEPT !.pc = "iss_insert", !.available = proc.all_users,
                            !.reset = TRUE]
    /\ UNCHANGED <<users, SLACK_EVENTS_Q, now, issued, sent, evLeft, stop,
                   mon, sched, nEnq, nDeq, nDone, round>>

\* issue_challenge, lines 186-190: the pick and its row
ProcIssueInsert ==
    /\ proc.pc = "iss_insert"
    /\ \E new_challenge \in proc.available :
        LET slack_id == Val(proc.user).slack_id
        IN  IF insert_challenge_fails(users, slack_id)
            THEN /\ proc' = [ProcIdle EXCEPT !.pc = "crashed"]
                 /\ UNCHANGED <<challenges, round>>
            ELSE /\ challenges' = insert_challenge(challenges, slack_id, new_challenge)
                 /\ proc' = [proc EXCEPT !.pc = "iss_get", !.new_challenge = new_challenge]
                 /\ round' = [round EXCEPT ![slack_id] =
                                IF proc.reset THEN {new_challenge} ELSE @ \cup {new_challenge}]
    /\ UNCHANGED <<users, SLACK_EVENTS_Q, now, issued, sent, evLeft, stop,
                   mon, sched, nEnq, nDeq, nDone>>

\* issue_challenge, lines 193-196 and 210-214
ProcIssueGet ==
    /\ proc.pc = "iss_get"
    /\ LET new_challenge_user == User_get(users, proc.new_challenge)
       IN  IF new_challenge_user # None
           THEN /\ proc' = [proc EXCEPT
                        !.pc = "save_get",
                        !.next = "send",
                        !.challenge_user = new_challenge_user,
                        !.message = Some(Message("prompt", None)),
                        !.about = [challenge |-> upper_id(proc.new_challenge),
                                   at |-> <<now, issued + 1>>],
                        !.user = Some(set_challenge(Val(proc.user), proc.new_challenge,
                                                    <<now, issued + 1>>))]
                /\ issued' = issued + 1
           ELSE /\ proc' = [proc EXCEPT !.pc = "send",
                                        !.message = Some(Message("issue_error", None))]
                /\ UNCHANGED issued
    /\ UNCHANGED <<users, challenges, SLACK_EVENTS_Q, now, sent, evLeft, stop,
                   mon, sched, nEnq, nDeq, nDone, round>>

\* the chat.postMessage call that ends resolve_challenge (144) and every path of
\* issue_challenge (161, 200, 215, 226)
ProcSend ==
    /\ proc.pc = "send"
    /\ sent' = sent (+) SetToBag({Post(Val(proc.user), Val(proc.message),
                                       proc.about.challenge, proc.about.at)})
    /\ proc' = [proc EXCEPT !.pc = "check", !.replies = @ + 1]
    /\ nDone' = nDone + 1
    /\ UNCHANGED <<users, challenges, SLACK_EVENTS_Q, now, issued, evLeft, stop,
                   mon, sched, nEnq, nDeq, round>>

\* run, lines 250-252: the stop check
ProcCheck ==
    /\ proc.pc = "check"
    /\ proc' = [ProcIdle EXCEPT !.pc = IF stopped("process") THEN "done" ELSE "get"]
    /\ UNCHANGED <<users, challenges, SLACK_EVENTS_Q, now, issued, sent, evLeft, stop,
                   mon, sched, nEnq, nDeq, nDone, round>>

Processor ==
    \/ ProcGet \/ ProcTimeout \/ ProcLoad
    \/ ProcResolveGet \/ ProcSaveGet \/ ProcSaveWrite
    \/ ProcIssueUsers \/ ProcIssueHistory \/ ProcIssueReset \/ ProcIssueInsert
    \/ ProcIssueGet \/ ProcSend \/ ProcCheck

-----------------------------------------------------------------------------
(* ScheduleThread *)

Jobs == {"clear", "sync"}

\* mutant: every challenge is overdue
overdue_at_any_age(at, clock) == TRUE

\* clear_challenges, lines 288-292: the challenge is overdue
overdue(at, clock) == at[1] + CHALLENGE_TIMEOUT <= clock

\* clear_challenges, lines 276-284: the users that have a challenge
select_challenges(tbl) ==
    {[user |-> tbl[u].slack_id, challenge |-> tbl[u].challenge,
      at |-> tbl[u].challenge_datetime] : u \in {x \in DOMAIN tbl : tbl[x].challenge # NoId}}

\* is_active_slack_user on a member of the fetched roster
is_active_slack_user(roster, u) == roster[u] = "active"

\* run, line 319: schedule.run_pending runs every due job once; ran holds the
\* jobs that have run in this iteration of the loop
JobDone(job) ==
    [SchedIdle EXCEPT !.pc = "job_done", !.ran = sched.ran \cup {job},
                      !.roster = sched.roster, !.syncs = sched.syncs]

\* users.list returns the members in a fixed order
IdOrder == <<"U1", "U2", "U3">>
Members(roster) == SelectSeq(IdOrder, LAMBDA u : roster[u] # "absent")

\* clear_challenges, lines 276-284: the scan
SchedClearScan ==
    /\ sched.pc = "run_pending"
    /\ sched' = [sched EXCEPT !.pc = "clear_next", !.rows = select_challenges(users)]
    /\ UNCHANGED <<users, challenges, SLACK_EVENTS_Q, now, issued, sent, evLeft, stop,
                   mon, proc, nEnq, nDeq, nDone, round>>

\* clear_challenges, lines 285-292: the next row of the scan and its deadline;
\* strptime raises on a challenge without a datetime
SchedClearRow ==
    /\ sched.pc = "clear_next"
    /\ \E row \in sched.rows :
        sched' = IF row.at = None
                 THEN [SchedIdle EXCEPT !.pc = "crashed"]
                 ELSE IF overdue(row.at, now)
                 THEN [sched EXCEPT !.pc = "clear_get_cu", !.rows = @ \ {row},
                                    !.row = Some(row)]
                 ELSE [sched EXCEPT !.rows = @ \ {row}]
    /\ UNCHANGED <<users, challenges, SLACK_EVENTS_Q, now, issued, sent, evLeft, stop,
                   mon, proc, nEnq, nDeq, nDone, round>>

\* clear_challenges: the loop over the scan is over
SchedClearDone ==
    /\ sched.pc = "clear_next"
    /\ sched.rows = {}
    /\ sched' = JobDone("clear")
    /\ UNCHANGED <<users, challenges, SLACK_EVENTS_Q, now, issued, sent, evLeft, stop,
                   mon, proc, nEnq, nDeq, nDone, round>>

\* clear_challenges, line 293
SchedClearGetChallenge ==
    /\ sched.pc = "clear_get_cu"
    /\ sched' = [sched EXCEPT !.pc = "clear_get_u",
                              !.challenge_user = User_get(users, Val(sched.row).challenge)]
    /\ UNCHANGED <<users, challenges, SLACK_EVENTS_Q, now, issued, sent, evLeft, stop,
                   mon, proc, nEnq, nDeq, nDone, round>>

\* clear_challenges, lines 294-297 and 306-309
SchedClearGetUser ==
    /\ sched.pc = "clear_get_u"
    /\ LET user == User_get(users, Val(sched.row).user)
       IN  sched' = IF user # None /\ sched.challenge_user # None
                    THEN [sched EXCEPT !.pc = "save_get", !.next = "clear_send",
                                       !.user = Some(clear_challenge(Val(user)))]
                    ELSE [sched EXCEPT !.pc = "clear_next", !.row = None,
                                       !.challenge_user = None]
    /\ UNCHANGED <<users, challenges, SLACK_EVENTS_Q, now, issued, sent, evLeft, stop,
                   mon, proc, nEnq, nDeq, nDone, round>>

\* User.save, line 128, called by clear_challenges (298) and get_users_from_slack (54)
SchedSaveGet ==
    /\ sched.pc = "save_get"
    /\ sched' = [sched EXCEPT !.pc = "save_write",
                              !.in_db = User_get(users, Val(sched.user).slack_id) # None]
    /\ UNCHANGED <<users, challenges, SLACK_EVENTS_Q, now, issued, sent, evLeft, stop,
                   mon, proc, nEnq, nDeq, nDone, round>>

\* User.save, lines 129-135.  A failed INSERT ends the thread when it is raised in
\* clear_challenges, and only the sync when it is raised in get_users_from_slack
\* (utils.py 15: @logger.catch)
SchedSaveWrite ==
    /\ sched.pc = "save_write"
    /\ IF sched.in_db
       THEN /\ users' = _update(users, Val(sched.user))
            /\ sched' = [sched EXCEPT !.pc = sched.next]
       ELSE IF insert_fails(users, Val(sched.user))
       THEN /\ sched' = IF sched.next = "clear_send"
                        THEN [SchedIdle EXCEPT !.pc = "crashed"]
                        ELSE JobDone("sync")
            /\ UNCHANGED users
       ELSE /\ users' = insert_user(users, Val(sched.user))
            /\ sched' = [sched EXCEPT !.pc = sched.next]
    /\ UNCHANGED <<challenges, SLACK_EVENTS_Q, now, issued, sent, evLeft, stop,
                   mon, proc, nEnq, nDeq, nDone, round>>

\* clear_challenges, lines 299-305: the timed-out message
SchedClearSend ==
    /\ sched.pc = "clear_send"
    /\ sent' = sent (+) SetToBag({Post(Val(sched.user),
                                       Message("timeout", first_name(Val(sched.challenge_user))),
                                       Val(sched.row).challenge, Val(sched.row).at)})
    /\ sched' = [sched EXCEPT !.pc = "clear_next", !.row = None, !.user = None,
                              !.challenge_user = None]
    /\ UNCHANGED <<users, challenges, SLACK_EVENTS_Q, now, issued, evLeft, stop,
                   mon, proc, nEnq, nDeq, nDone, round>>

\* get_users_from_slack, lines 23-47: the roster is fetched
SchedSyncFetch(rosters) ==
    /\ sched.pc = "run_pending"
    /\ sched.syncs < MaxSyncs
    /\ \E roster \in rosters :
        sched' = [sched EXCEPT !.pc = "sync_next",
                               !.roster = roster, !.syncs = @ + 1,
                               !.members = Members(roster)]
    /\ UNCHANGED <<users, challenges, SLACK_EVENTS_Q, now, issued, sent, evLeft, stop,
                   mon, proc, nEnq, nDeq, nDone, round>>

\* get_users_from_slack, lines 49-57: the next member is saved or deleted
SchedSyncMember ==
    /\ sched.pc = "sync_next"
    /\ sched.members # <<>>
    /\ LET u == Head(sched.members)
       IN  sched' = IF is_active_slack_user(sched.roster, u)
                    THEN [sched EXCEPT !.pc = "save_get", !.next = "sync_next",
                                       !.members = Tail(@),
                                       !.user = Some(parse_slack_data(u))]
                    ELSE [sched EXCEPT !.pc = "del_get", !.members = Tail(@),
                                       !.user = Some(parse_slack_data(u))]
    /\ UNCHANGED <<users, challenges, SLACK_EVENTS_Q, now, issued, sent, evLeft, stop,
                   mon, proc, nEnq, nDeq, nDone, round>>

\* get_users_from_slack, lines 59-63: every member is done
SchedSyncDone ==
    /\ sched.pc = "sync_next"
    /\ sched.members = <<>>
    /\ sched' = JobDone("sync")
    /\ UNCHANGED <<users, challenges, SLACK_EVENTS_Q, now, issued, sent, evLeft, stop,
                   mon, proc, nEnq, nDeq, nDone, round>>

\* User.delete, line 141
SchedDeleteGet ==
    /\ sched.pc = "del_get"
    /\ sched' = [sched EXCEPT !.pc = "del_write",
                              !.in_db = User_get(users, Val(sched.user).slack_id) # None]
    /\ UNCHANGED <<users, challenges, SLACK_EVENTS_Q, now, issued, sent, evLeft, stop,
                   mon, proc, nEnq, nDeq, nDone, round>>

\* User.delete, lines 142-144; the foreign key error ends the sync
SchedDeleteWrite ==
    /\ sched.pc = "del_write"
    /\ LET slack_id == Val(sched.user).slack_id
       IN  IF ~sched.in_db \/ slack_id \notin DOMAIN users
           THEN /\ sched' = [sched EXCEPT !.pc = "sync_next"]
                /\ UNCHANGED users
           ELSE IF delete_fails(users, challenges, slack_id)
           THEN /\ sched' = JobDone("sync")
                /\ UNCHANGED users
           ELSE /\ users' = delete_user(users, slack_id)
                /\ sched' = [sched EXCEPT !.pc = "sync_next"]
    /\ UNCHANGED <<challenges, SLACK_EVENTS_Q, now, issued, sent, evLeft, stop,
                   mon, proc, nEnq, nDeq, nDone, round>>

\* run, lines 319-323: no job is due; sleep, then the stop check
SchedEmpty ==
    /\ sched.pc = "run_pending"
    /\ sched' = [sched EXCEPT !.pc = IF stopped("schedule") THEN "done" ELSE "run_pending"]
    /\ UNCHANGED <<users, challenges, SLACK_EVENTS_Q, now, issued, sent, evLeft, stop,
                   mon, proc, nEnq, nDeq, nDone, round>>

\* run, lines 320-323: every due job has run; sleep, then the stop check
SchedCheck ==
    /\ sched.pc = "job_done"
    /\ sched' = [SchedIdle EXCEPT !.pc = IF stopped("schedule") THEN "done" ELSE "run_pending",
                                  !.syncs = sched.syncs]
    /\ UNCHANGED <<users, challenges, SLACK_EVENTS_Q, now, issued, sent, evLeft, stop,
                   mon, proc, nEnq, nDeq, nDone, round>>

\* run, line 319: the other job is due too, and runs after this one
SchedSecondJob(rosters) ==
    /\ sched.pc = "job_done"
    /\ sched.ran # Jobs
    /\ IF "clear" \in sched.ran
       THEN /\ sched.syncs < MaxSyncs
            /\ \E roster \in rosters :
                sched' = [sched EXCEPT !.pc = "sync_next", !.ran = Jobs,
                                       !.roster = roster, !.syncs = @ + 1,
                                       !.members = Members(roster)]
       ELSE sched' = [sched EXCEPT !.pc = "clear_next", !.ran = Jobs,
                                   !.rows = select_challenges(users)]
    /\ UNCHANGED <<users, challenges, SLACK_EVENTS_Q, now, issued, sent, evLeft, stop,
                   mon, proc, nEnq, nDeq, nDone, round>>

\* rosters: what users.list may return to a sync
SchedulerOn(rosters) ==
    \/ SchedEmpty \/ SchedClearScan \/ SchedClearRow \/ SchedClearDone
    \/ SchedClearGetChallenge \/ SchedClearGetUser \/ SchedSaveGet \/ SchedSaveWrite
    \/ SchedClearSend \/ SchedSyncFetch(rosters) \/ SchedSyncMember \/ SchedSyncDone
    \/ SchedDeleteGet \/ SchedDeleteWrite \/ SchedSecondJob(rosters) \/ SchedCheck

Scheduler == SchedulerOn(Rosters)

Monitor == MonRead(RawEvents) \/ MonEmpty \/ MonClassify

-----------------------------------------------------------------------------
(* The bot: the three threads and the clock *)

Next == Tick \/ Monitor \/ Processor \/ Scheduler

Spec == Init /\ [][Next]_vars

-----------------------------------------------------------------------------
(* The rotation alone: only the Poller and the Processor run.  The directory *)
(* does not change, so the eligible-others set of every user stays fixed,    *)
(* and the users keep playing.                                               *)

InitRot == InitWith(MaxRotEvents, {})

NextRot == MonRead(RotEvents) \/ MonEmpty \/ MonClassify \/ Processor

SpecRot == InitRot /\ [][NextRot]_vars

-----------------------------------------------------------------------------
(* Platform failures: a call of the Slack client raises.  run is wrapped by  *)
(* @logger.catch (classes.py 92, 230, 311), which logs what was raised inside *)
(* the loop and returns: the thread is over (pc "failed").                   *)
(* get_users_from_slack has its own @logger.catch (utils.py 15): what is     *)
(* raised inside the sync ends the sync only.                                *)

\* queue_slack_events, line 80: rtm_read raises
MonReadFails ==
    /\ mon.pc = "read"
    /\ mon' = [MonIdle EXCEPT !.pc = "failed"]
    /\ UNCHANGED <<users, challenges, SLACK_EVENTS_Q, now, issued, sent, evLeft, stop,
                   proc, sched, nEnq, nDeq, nDone, round>>

\* resolve_challenge, line 144, and issue_challenge: chat.postMessage raises
ProcSendFails ==
    /\ proc.pc = "send"
    /\ proc' = [ProcIdle EXCEPT !.pc = "failed"]
    /\ UNCHANGED <<users, challenges, SLACK_EVENTS_Q, now, issued, sent, evLeft, stop,
                   mon, sched, nEnq, nDeq, nDone, round>>

\* clear_challenges, line 303: chat.postMessage raises
SchedSendFails ==
    /\ sched.pc = "clear_send"
    /\ sched' = [SchedIdle EXCEPT !.pc = "failed", !.syncs = sched.syncs]
    /\ UNCHANGED <<users, challenges, SLACK_EVENTS_Q, now, issued, sent, evLeft, stop,
                   mon, proc, nEnq, nDeq, nDone, round>>

\* get_users_from_slack, lines 26-44: conversations.list or users.list raises
SchedSyncFails ==
    /\ sched.pc = "run_pending"
    /\ sched.syncs < MaxSyncs
    /\ sched' = [JobDone("sync") EXCEPT !.syncs = sched.syncs + 1]
    /\ UNCHANGED <<users, challenges, SLACK_EVENTS_Q, now, issued, sent, evLeft, stop,
                   mon, proc, nEnq, nDeq, nDone, round>>

NextFail == Next \/ MonReadFails \/ ProcSendFails \/ SchedSendFails \/ SchedSyncFails

SpecFail == Init /\ [][NextFail]_vars

-----------------------------------------------------------------------------
(* Stopping: stop() is called on a thread (classes.py 101, 254, 325).        *)
(* Each thread keeps running (weak fairness of its steps).                   *)

MaxStopEvents == 2

\* the raw events rtm_read delivers in SpecStop: one user who plays
StopEvents == { Raw("U1", "D1", <<"p","l","a","y">>) }

\* the roster a directory sync fetches in SpecStop: U2 has been deactivated
StopRosters == { [AllActive EXCEPT !["U2"] = "inactive"] }

\* U1 has been given every other user in an earlier run of the program
StopHistory == { <<"U1", "U2">>, <<"U1", "U3">> }

StopRequest ==
    /\ \E t \in Threads :
        /\ ~stop[t]
        /\ stop' = [stop EXCEPT ![t] = TRUE]
    /\ UNCHANGED <<users, challenges, SLACK_EVENTS_Q, now, issued, sent, evLeft,
                   mon, proc, sched, nEnq, nDeq, nDone, round>>

InitStop == InitWith(MaxStopEvents, StopHistory)

NextStop ==
    \/ Tick
    \/ MonRead(StopEvents) \/ MonEmpty \/ MonClassify
    \/ Processor
    \/ SchedulerOn(StopRosters)
    \/ StopRequest

SpecStop ==
    /\ InitStop
    /\ [][NextStop]_vars
    /\ WF_vars(MonRead(StopEvents) \/ MonEmpty \/ MonClassify)
    /\ WF_vars(Processor)
    /\ WF_vars(SchedulerOn(StopRosters))

-----------------------------------------------------------------------------
(* The Poller alone, on raw events of every kind queue_slack_events tells apart *)

MaxPollEvents == 3

\* the raw events rtm_read delivers in SpecPoll
PollEvents ==
    { \* a mention of the bot with a text, in a public channel
      Raw("U1", "C0", <<"<","@","U","9",">"," "," ","P","l","a","y"," ">>),
      \* a mention of another id, in a public channel and in a direct channel
      Raw("U1", "C0", <<"<","@","U","1",">"," ","p","l","a","y">>),
      Raw("U2", "D2", <<"<","@","U","1",">"," ","h","i">>),
      \* a bare mention of the bot, in a public channel and in a direct channel
      Raw("U1", "C0", <<"<","@","U","9",">"," ">>),
      Raw("U1", "D1", <<"<","@","U","9",">">>),
      \* an event with a subtype, in a direct channel
      [Raw("U1", "D1", <<"p","l","a","y">>) EXCEPT !.subtype = TRUE],
      \* plain texts, in a direct channel and in a public channel
      Raw("u2", "D2", <<" ","H","i"," "," ","B","o","b"," ">>),
      Raw("U2", "C0", <<"p","l","a","y">>) }

InitPoll == InitWith(MaxPollEvents, {})

NextPoll == MonRead(PollEvents) \/ MonEmpty \/ MonClassify

SpecPoll == InitPoll /\ [][NextPoll]_vars

-----------------------------------------------------------------------------
(* A directory that shrinks to one user: the sync finds every other member    *)
(* deactivated, while U1, who has been given every other user in an earlier   *)
(* run, plays.                                                                *)

MaxLoneEvents == 2

LoneRosters == { [AllActive EXCEPT !["U2"] = "inactive", !["U3"] = "inactive"] }

InitLone == InitWith(MaxLoneEvents, StopHistory)

NextLone ==
    \/ Tick
    \/ MonRead(StopEvents) \/ MonEmpty \/ MonClassify
    \/ Processor
    \/ SchedulerOn(LoneRosters)

SpecLone == InitLone /\ [][NextLone]_vars

-----------------------------------------------------------------------------
(* Guessing: U2, who has been given every other user in an earlier run, plays *)
(* and answers in several ways.                                               *)

MaxGuessEvents == 3

\* the raw events rtm_read delivers in SpecGuess
GuessEvents ==
    { Raw("U2", "D2", <<"p","l","a","y">>),
      Raw("U2", "D2", <<"A","N","N">>),
      Raw("U2", "D2", <<"a","n","n","i","e">>),
      Raw("U2", "D2", <<"A","n","n"," ","L","e","e">>),
      Raw("U2", "D2", <<"p","o","e"," ">>),
      Raw("U2", "C0", <<"<","@","U","9",">"," ","C","y"," ">>) }

GuessHistory == { <<"U2", "U1">>, <<"U2", "U3">> }

InitGuess == InitWith(MaxGuessEvents, GuessHistory)

NextGuess == MonRead(GuessEvents) \/ MonEmpty \/ MonClassify \/ Processor

SpecGuess == InitGuess /\ [][NextGuess]_vars

-----------------------------------------------------------------------------
(* A member leaves while being the target of a challenge: U1 and U2 play, U1  *)
(* answers, and the sync finds U3, who has never played, deactivated.         *)

MaxSweepEvents == 2

\* the raw events rtm_read delivers in SpecSweep
SweepEvents ==
    { Raw("U1", "D1", <<"p","l","a","y">>),
      Raw("U2", "D2", <<"p","l","a","y">>),
      Raw("U1", "D1", <<"C","y">>) }

SweepRosters == { AllActive, [AllActive EXCEPT !["U3"] = "inactive"] }

InitSweep == InitWith(MaxSweepEvents, StopHistory)

NextSweep ==
    \/ Tick
    \/ MonRead(SweepEvents) \/ MonEmpty \/ MonClassify
    \/ Processor
    \/ SchedulerOn(SweepRosters)

SpecSweep == InitSweep /\ [][NextSweep]_vars

-----------------------------------------------------------------------------
(* Properties *)

\* the targets recorded for slack_id in the table challenges
HistoryOf(hist, slack_id) == {row[2] : row \in {r \in hist : r[1] = slack_id}}

\* the rows of the other users
OtherRows(hist, slack_id) == {row \in hist : row[1] # slack_id}

\* a step in which the rotation returns its pick
PickStep == proc.pc = "iss_insert" /\ proc'.pc = "iss_get"

\* C1: with the eligible-others set E fixed (|E| >= 2), the rotation never returns
\* a target it has already returned since the last round reset, and it resets
\* the round only when every member of E has been returned since the last reset.
C1_NoRepeatWithinRound ==
    [][PickStep =>
        LET slack_id == Val(proc.user).slack_id
            E == Ids \ {slack_id}
        IN  /\ proc.all_users = E
            /\ Cardinality(E) >= 2
            /\ ~proc.reset => proc'.new_challenge \notin round[slack_id]
            /\ proc.reset => E \subseteq round[slack_id]
            /\ proc'.new_challenge \in E]_vars

\* C1 witness: a round has been reset and a target is returned again
C1_Witness ==
    /\ proc.pc = "iss_get"
    /\ proc.reset
    /\ Cardinality(proc.all_users) >= 2
    /\ round[Val(proc.user).slack_id] = {proc.new_challenge}

\* C2: a rotation call that finds nothing available deletes every history row of
\* that user before it records the pick, picks a member of E, and leaves that
\* pick as the user's only history row; the rows of the other users stay.
C2_ResetLeavesOnePick ==
    [][/\ (proc.pc = "iss_reset" /\ proc'.pc = "iss_insert") =>
            /\ HistoryOf(challenges', Val(proc.user).slack_id) = {}
            /\ OtherRows(challenges', Val(proc.user).slack_id)
                 = OtherRows(challenges, Val(proc.user).slack_id)
       /\ (PickStep /\ proc.reset) =>
            /\ proc'.new_challenge \in proc.all_users
            /\ HistoryOf(challenges', Val(proc.user).slack_id) = {proc'.new_challenge}
            /\ Cardinality({r \in challenges' : r[1] = Val(proc.user).slack_id}) = 1
            /\ OtherRows(challenges', Val(proc.user).slack_id)
                 = OtherRows(challenges, Val(proc.user).slack_id)
       /\ (proc.pc = "iss_hist" /\ proc'.pc = "iss_reset") =>
            /\ proc.all_users # {}
            /\ proc.all_users \subseteq
                 current_challenges(users, challenges, Val(proc.user).slack_id)]_vars

\* C2 witness: a reset has been made for a user while another user has history
\* rows, and the pick is recorded
C2_Witness ==
    /\ proc.pc = "iss_get"
    /\ proc.reset
    /\ OtherRows(challenges, Val(proc.user).slack_id) # {}

\* the replies of resolve_challenge and the message of the expiry sweep
Feedback == {"correct", "wrong", "syserror"}

\* the number of messages of the given kinds sent to slack_id about the challenge
\* it was given at the datetime at
RECURSIVE Copies(_, _)
Copies(bag, posts) ==
    IF posts = {} THEN 0
    ELSE LET p == CHOOSE x \in posts : TRUE IN bag[p] + Copies(bag, posts \ {p})
CountIn(bag, kinds, slack_id, at) ==
    Copies(bag, {p \in DOMAIN bag : p.kind \in kinds /\ p.user = slack_id /\ p.at = at})
Count(kinds, slack_id, at) == CountIn(sent, kinds, slack_id, at)

\* the stored row of slack_id, if there is one, has no challenge and no datetime
StoredIdle(tbl, slack_id) ==
    slack_id \in DOMAIN tbl =>
        tbl[slack_id].challenge = NoId /\ tbl[slack_id].challenge_datetime = None

\* C3: resolve_challenge ends with the stored challenge and challenge_datetime of
\* the user both null and with exactly one reply sent (correct, wrong, or the
\* system error when the target cannot be loaded); the fields are null from its
\* save on.
C3_ResolveClearsBoth ==
    (proc.branch = "resolve" /\ proc.pc \in {"send", "check"}) =>
        /\ StoredIdle(users, Val(proc.user).slack_id)
        /\ Val(proc.message).kind \in Feedback
        /\ (Val(proc.message).kind = "syserror") = (proc.challenge_user = None)
        /\ proc.replies = (IF proc.pc = "check" THEN 1 ELSE 0)

\* C3 witness: resolve_challenge has ended after a failed target lookup
C3_Witness ==
    /\ proc.branch = "resolve"
    /\ proc.pc = "check"
    /\ proc.challenge_user = None
    /\ Val(proc.user).slack_id \in DOMAIN users

\* C4: in every state of the table users, a user has a challenge_datetime
\* exactly when it has a challenge.
C4_ChallengePairAtomic ==
    \A u \in DOMAIN users :
        (users[u].challenge = NoId) = (users[u].challenge_datetime = None)

\* C4 witness: a user has a challenge while the Processor and the directory sync
\* are both about to write a row
C4_Witness ==
    /\ \E u \in DOMAIN users : users[u].challenge # NoId /\ users[u].challenge_datetime # None
    /\ proc.pc = "save_write"
    /\ sched.pc = "save_write"
    /\ sched.next = "sync_next"

\* C5: a message consumed for a user whose stored challenge is set goes to
\* resolve_challenge, also when it is the play-command; no challenge is being
\* issued to a user whose stored challenge is set, and a stored challenge is
\* never replaced by another one without being cleared first.
C5_NoIssueWhileAwaiting ==
    [][/\ (proc.pc = "load" /\ proc'.pc # "load"
            /\ Val(proc.event).user \in DOMAIN users
            /\ users[Val(proc.event).user].challenge # NoId) => proc'.branch = "resolve"
       /\ proc'.branch = "issue" =>
            (Val(proc'.event).user \in DOMAIN users' =>
                \/ users'[Val(proc'.event).user].challenge = NoId
                \/ users'[Val(proc'.event).user].challenge_datetime
                     = Val(proc'.user).challenge_datetime)
       /\ \A u \in DOMAIN users \cap DOMAIN users' :
            users[u].challenge # NoId =>
                \/ users'[u].challenge = NoId
                \/ /\ users'[u].challenge = users[u].challenge
                   /\ users'[u].challenge_datetime = users[u].challenge_datetime]_vars

\* C5 witness: a play-command of a user that has a challenge is being resolved
C5_Witness ==
    /\ proc.branch = "resolve"
    /\ proc.pc = "send"
    /\ startswith(Val(proc.event).message, PLAY_GAME)

\* C6: the expiry sweep clears both challenge fields of a user whose challenge
\* is overdue (user and target present) and then sends one timed-out message;
\* no challenge ever gets a second timed-out message, and a challenge that got
\* one was overdue and is no longer the stored one.
C6_ExpiryOnce ==
    /\ [](\A p \in DOMAIN sent : p.kind = "timeout" =>
            /\ Count({"timeout"}, p.user, p.at) = 1
            /\ now - p.at[1] >= CHALLENGE_TIMEOUT
            /\ p.user \in DOMAIN users => users[p.user].challenge_datetime # p.at)
    /\ [][/\ (sched.pc = "clear_get_u" /\ sched'.pc # "clear_get_u"
               /\ sched.challenge_user # None
               /\ User_get(users, Val(sched.row).user) # None) => sched'.pc = "save_get"
          /\ (sched.pc = "save_write" /\ sched.next = "clear_send" /\ sched'.pc # "save_write") =>
                /\ sched'.pc = "clear_send"
                /\ Val(sched.user).slack_id \in DOMAIN users'
                /\ StoredIdle(users', Val(sched.user).slack_id)
          /\ (sched.pc = "clear_send" /\ sched'.pc # "clear_send") =>
                /\ BagCardinality(sent') = BagCardinality(sent) + 1
                /\ CountIn(sent', {"timeout"}, Val(sched.row).user, Val(sched.row).at) = 1]_vars

\* C6 witness: a timed-out message has been sent and a later sweep is scanning
C6_Witness ==
    /\ \E p \in DOMAIN sent : p.kind = "timeout"
    /\ sched.pc = "clear_next"
    /\ sched.rows # {}

\* C7 as claimed: no challenge gets both a guess feedback and a timed-out message.
C7_OneResolutionPerChallenge ==
    \A p \in DOMAIN sent :
        p.kind \in Feedback \cup {"timeout"} =>
            Count(Feedback \cup {"timeout"}, p.user, p.at) <= 1

\* C7 as amended: a challenge gets at most one guess feedback from the Processor
\* and at most one timed-out message from the Scheduler.
C7_OneResolutionPerThread ==
    \A p \in DOMAIN sent :
        p.kind \in Feedback \cup {"timeout"} =>
            /\ Count(Feedback, p.user, p.at) <= 1
            /\ Count({"timeout"}, p.user, p.at) <= 1

\* C7 witness: one challenge got a guess feedback and a timed-out message
C7_Witness ==
    \E p \in DOMAIN sent :
        /\ p.kind = "timeout"
        /\ Count(Feedback, p.user, p.at) = 1
        /\ Count({"timeout"}, p.user, p.at) = 1

\* C10: the Processor takes the events in the order of their puts, one at a
\* time: the queue holds the events put and not yet taken, in order, the event
\* being handled is the last one taken, and an event is taken only when the
\* handling of the one before is finished.
C10_Fifo ==
    /\ nEnq = nDeq + Len(SLACK_EVENTS_Q)
    /\ \A i \in 1..Len(SLACK_EVENTS_Q) : SLACK_EVENTS_Q[i].seq = nDeq + i
    /\ proc.event # None => Val(proc.event).seq = nDeq
    /\ nDone \in {nDeq - 1, nDeq}
    /\ proc.pc = "get" => nDone = nDeq

\* C10 witness: two events waited in the queue together and the second one is
\* taken after the first one was handled
C10_Witness ==
    /\ nDeq = 2
    /\ nDone = 1
    /\ proc.pc = "load"
    /\ mon.pc = "read"
    /\ evLeft = 0

\* the program counter of a thread, and the thread is over
PcOf(t) == CASE t = "monitor" -> mon.pc [] t = "process" -> proc.pc [] OTHER -> sched.pc
Ended(t) == PcOf(t) \in {"done", "crashed", "failed"}

\* C8 as claimed: no platform failure ends the loop of a thread.
C8_FailureKeepsLoop ==
    \A t \in Threads : PcOf(t) # "failed"

\* C9: once stop is requested on a thread its loop ends: the thread does not
\* begin another iteration after the one it is in, and it is eventually over;
\* the Processor's wait on an empty queue ends without a change of the tables
\* or the queue, without a reply and without an error.
C9_StopEndsLoop ==
    /\ (stop["monitor"] ~> Ended("monitor"))
    /\ (stop["process"] ~> Ended("process"))
    /\ (stop["schedule"] ~> Ended("schedule"))
    /\ [][/\ (stop["process"] /\ proc.pc = "check") => proc'.pc # "get"
          /\ (stop["monitor"] /\ mon' # mon) => mon'.pc # "read"
          /\ (stop["schedule"] /\ sched' # sched) => sched'.pc # "run_pending"
          /\ (proc.pc = "get" /\ SLACK_EVENTS_Q = <<>> /\ proc' # proc) =>
                /\ proc'.pc = "check"
                /\ UNCHANGED <<users, challenges, SLACK_EVENTS_Q, sent>>]_vars

\* C9 witness: the Processor was stopped while no message had ever arrived, and
\* it is over
C9_Witness ==
    /\ stop["process"]
    /\ proc.pc = "done"
    /\ nEnq = 0
    /\ nDeq = 0

\* a step that is one pass of the Poller's loop over a batch; mon'.last is the
\* raw event of the pass
PollPass == mon' # mon /\ (evLeft' # evLeft \/ mon.pc = "classify")

\* the channel is the direct channel of a stored user
Registered(channel) == \E u \in DOMAIN users : users[u].slack_channel = channel

\* the step puts one item at the end of the queue / puts nothing
Enqueued(user, message) ==
    /\ Len(SLACK_EVENTS_Q') = Len(SLACK_EVENTS_Q) + 1
    /\ SubSeq(SLACK_EVENTS_Q', 1, Len(SLACK_EVENTS_Q)) = SLACK_EVENTS_Q
    /\ SLACK_EVENTS_Q'[Len(SLACK_EVENTS_Q')].user = user
    /\ SLACK_EVENTS_Q'[Len(SLACK_EVENTS_Q')].message = message
Dropped == SLACK_EVENTS_Q' = SLACK_EVENTS_Q

\* the text starts with a mention of the bot followed by a text / by nothing /
\* with a mention of another id
BotMention(text) ==
    LET m == parse_direct_mention(text) IN m.matched /\ m.id = STAFF_BOT_ID /\ m.rest # <<>>
BareMention(text) ==
    LET m == parse_direct_mention(text) IN m.matched /\ m.id = STAFF_BOT_ID /\ m.rest = <<>>
OtherMention(text) ==
    LET m == parse_direct_mention(text) IN m.matched /\ m.id # STAFF_BOT_ID

\* C11 as claimed: a mention of the bot with a text is enqueued as the sender and
\* the trimmed remainder as it was written; a mention of another id is enqueued
\* only from a registered direct channel; an event with a subtype is dropped.
C11_ClassifyRemainderAsWritten ==
    [][PollPass =>
        LET raw == Val(mon'.last) IN
        /\ raw.subtype => Dropped
        /\ (~raw.subtype /\ BotMention(raw.text)) =>
               Enqueued(raw.user, parse_direct_mention(raw.text).rest)
        /\ (~raw.subtype /\ OtherMention(raw.text)) =>
               IF Registered(raw.channel)
               THEN Len(SLACK_EVENTS_Q') = Len(SLACK_EVENTS_Q) + 1
               ELSE Dropped]_vars

\* C11, amended: a mention of the bot with a text is enqueued as the sender and
\* the trimmed remainder in lower case; a mention of another id is enqueued only
\* from a registered direct channel; an event with a subtype is dropped.
C11_ClassifyRemainderLowered ==
    [][PollPass =>
        LET raw == Val(mon'.last) IN
        /\ raw.subtype => Dropped
        /\ (~raw.subtype /\ BotMention(raw.text)) =>
               Enqueued(raw.user, lower(parse_direct_mention(raw.text).rest))
        /\ (~raw.subtype /\ OtherMention(raw.text)) =>
               IF Registered(raw.channel)
               THEN Len(SLACK_EVENTS_Q') = Len(SLACK_EVENTS_Q) + 1
               ELSE Dropped]_vars

\* C11 witness: the mention of the bot was enqueued as "play", and the mention of
\* another id in a public channel, read after it, was dropped
C11_Witness ==
    /\ evLeft = 0
    /\ mon.pc = "read"
    /\ Len(SLACK_EVENTS_Q) = 1
    /\ SLACK_EVENTS_Q[1].message = <<"p","l","a","y">>
    /\ mon.last # None
    /\ OtherMention(Val(mon.last).text)
    /\ ~Registered(Val(mon.last).channel)

\* C12 as claimed: a bare mention of the bot is never enqueued, whatever its channel.
C12_BareMentionDiscarded ==
    [][(PollPass /\ ~Val(mon'.last).subtype /\ BareMention(Val(mon'.last).text)) =>
            Dropped]_vars

\* the text starts with the play-command
PlayText(message) == Len(message) >= 4 /\ SubSeq(message, 1, 4) = <<"p","l","a","y">>

\* the Processor is about to load the user of an event, and the stored user is Idle
LoadsIdle ==
    /\ proc.pc = "load"
    /\ proc' # proc
    /\ Val(proc.event).user \in DOMAIN users
    /\ users[Val(proc.event).user].challenge = NoId

\* the step sends exactly one message, of the given kind, to the user being handled
SendsOne(kind) ==
    \E p \in DOMAIN sent' :
        /\ p.kind = kind
        /\ p.user = Val(proc.user).slack_id
        /\ p.channel = Val(proc.user).slack_channel
        /\ sent' = sent (+) SetToBag({p})

\* C13: a message that does not start with the play-command, for a user in Idle,
\* is answered by exactly one help reply, and its handling changes no stored
\* user and no history row; the user's challenge fields stay null.
C13_HelpChangesNothing ==
    /\ [](proc.branch = "help" =>
            /\ proc.pc \in {"send", "check"}
            /\ proc.replies = (IF proc.pc = "check" THEN 1 ELSE 0)
            /\ StoredIdle(users, Val(proc.user).slack_id))
    /\ [][/\ (LoadsIdle /\ ~PlayText(Val(proc.event).message)) => proc'.branch = "help"
          /\ (proc' # proc /\ (proc.branch = "help" \/ proc'.branch = "help")) =>
                /\ UNCHANGED <<users, challenges>>
                /\ IF proc.pc = "send" THEN SendsOne("help") ELSE UNCHANGED sent]_vars

\* C13 witness: the help reply has been sent to a stored user in Idle
C13_Witness ==
    /\ proc.branch = "help"
    /\ proc.pc = "check"
    /\ Val(proc.user).slack_id \in DOMAIN users
    /\ \E p \in DOMAIN sent : p.kind = "help" /\ p.user = Val(proc.user).slack_id

\* the eligible others of a user: the other stored users that can be targets
EligibleOthers(slack_id) ==
    {x \in DOMAIN users : x # slack_id /\ users[x].can_play_game = Some(1)}

\* the reply the Processor is about to send, or has just sent, is of this kind
Replying(kind) == proc.message # None /\ Val(proc.message).kind = kind

\* C14: a play-command for a user in Idle whose eligible-others set is empty is
\* answered by one error reply; the user stays Idle and no stored user and no
\* history row changes.
C14_NoOthersChangesNothing ==
    /\ [](Replying("nousers") =>
            /\ proc.pc \in {"send", "check"}
            /\ proc.replies = (IF proc.pc = "check" THEN 1 ELSE 0)
            /\ StoredIdle(users, Val(proc.user).slack_id))
    /\ [][/\ (LoadsIdle /\ PlayText(Val(proc.event).message)) => proc'.pc = "iss_users"
          /\ (proc.pc = "iss_users" /\ proc' # proc
                /\ EligibleOthers(Val(proc.user).slack_id) = {}) =>
                /\ proc'.pc = "send"
                /\ Val(proc'.message).kind = "nousers"
                /\ UNCHANGED <<users, challenges, sent>>
          /\ (Replying("nousers") /\ proc' # proc) =>
                /\ UNCHANGED <<users, challenges>>
                /\ IF proc.pc = "send" THEN SendsOne("nousers") ELSE UNCHANGED sent]_vars

\* C14 witness: U1 is the only stored user and has been told that there are no
\* other users
C14_Witness ==
    /\ Replying("nousers")
    /\ proc.pc = "check"
    /\ DOMAIN users = {"U1"}
    /\ \E p \in DOMAIN sent : p.kind = "nousers" /\ p.user = "U1"

\* C15: when the target that issue_challenge picked cannot be loaded, the user
\* gets one error reply and stays Idle, no stored user changes, and the history
\* row of the pick, inserted before the lookup, stays; a later pick of the same
\* round is never a target the history already holds.
C15_UnloadableTargetKeepsRow ==
    /\ [](Replying("issue_error") =>
            /\ proc.pc \in {"send", "check"}
            /\ proc.replies = (IF proc.pc = "check" THEN 1 ELSE 0)
            /\ StoredIdle(users, Val(proc.user).slack_id)
            /\ <<Val(proc.user).slack_id, proc.new_challenge>> \in challenges)
    /\ [][/\ (proc.pc = "iss_get" /\ proc' # proc /\ proc.new_challenge \notin DOMAIN users) =>
                /\ proc'.pc = "send"
                /\ Val(proc'.message).kind = "issue_error"
                /\ UNCHANGED <<users, challenges, sent>>
          /\ (Replying("issue_error") /\ proc' # proc) =>
                /\ UNCHANGED <<users, challenges>>
                /\ IF proc.pc = "send" THEN SendsOne("issue_error") ELSE UNCHANGED sent
          /\ (PickStep /\ ~proc.reset) =>
                proc'.new_challenge \notin HistoryOf(challenges, Val(proc.user).slack_id)]_vars

\* C15 witness: the error reply has been sent for a pick whose user was removed
\* from the directory, and the row of the pick is in the history
C15_Witness ==
    /\ Replying("issue_error")
    /\ proc.pc = "check"
    /\ proc.new_challenge \notin DOMAIN users
    /\ Val(proc.user).slack_id \in DOMAIN users
    /\ <<Val(proc.user).slack_id, proc.new_challenge>> \in challenges

\* C16: a message whose sender has no user record changes no stored user and
\* no history row and gets no reply; the Processor then goes on to the next
\* message.
C16_UnknownSenderIgnored ==
    /\ [](proc.branch = "nouser" => proc.pc = "check" /\ proc.replies = 0)
    /\ [][/\ (proc.pc = "load" /\ proc' # proc /\ Val(proc.event).user \notin DOMAIN users) =>
                /\ proc'.branch = "nouser"
                /\ nDone' = nDone + 1
                /\ UNCHANGED <<users, challenges, sent, SLACK_EVENTS_Q>>
          /\ (proc.branch = "nouser" /\ proc' # proc) =>
                /\ proc'.pc = (IF stop["process"] THEN "done" ELSE "get")
                /\ UNCHANGED <<users, challenges, sent, SLACK_EVENTS_Q>>]_vars

\* C16 witness: the message of a sender that is no longer stored has been
\* consumed without a reply, and the next message is waiting
C16_Witness ==
    /\ proc.branch = "nouser"
    /\ proc.pc = "check"
    /\ Val(proc.event).user \notin DOMAIN users
    /\ SLACK_EVENTS_Q # <<>>

\* the Scheduler is inside get_users_from_slack; a step of the sync
InSync ==
    \/ sched.pc \in {"sync_next", "del_get", "del_write"}
    \/ sched.pc \in {"save_get", "save_write"} /\ sched.next = "sync_next"
SyncStep == InSync /\ sched' # sched

\* C17 as claimed: no step of a directory sync changes the challenge or the
\* challenge datetime of a user that is stored before and after the step.
C17_SyncKeepsChallenge ==
    [][SyncStep =>
        \A u \in DOMAIN users \cap DOMAIN users' :
            /\ users'[u].challenge = users[u].challenge
            /\ users'[u].challenge_datetime = users[u].challenge_datetime]_vars

\* C18 as claimed: when a directory sync ends, the stored users are exactly the
\* members the fetched roster holds as active.
C18_SyncStoresActiveRoster ==
    [][(SyncStep /\ sched'.pc = "job_done") =>
            DOMAIN users' = {u \in Ids : sched.roster[u] = "active"}]_vars

\* the whitespace-delimited tokens of a name of the directory, in lower case
TokensOf(name) == {lower(split(name)[i]) : i \in 1..Len(split(name))}

\* the names a member of the directory is known by
KnownNames(u) == TokensOf(RealName[u]) \cup TokensOf(DisplayName[u])

\* C19: with a loadable target, the guess is judged correct exactly when the
\* text, without regard to case, is one of the whitespace-delimited tokens of
\* the target's real name or preferred name; otherwise the reply names the
\* first token of the target's real name.
C19_GuessJudgedByTokens ==
    [][(proc.pc = "res_get" /\ proc' # proc /\ Val(proc.user).challenge \in DOMAIN users) =>
        LET target == Val(proc.user).challenge
            guess == Val(proc.event).message
            reply == Val(proc'.message)
        IN  /\ reply.kind \in {"correct", "wrong"}
            /\ (reply.kind = "correct") = (lower(guess) \in KnownNames(target))
            /\ reply.kind = "wrong" =>
                    lower(reply.name) = lower(Head(split(RealName[target])))]_vars

\* C19 witness: U2 was asked about U1 and answered with the preferred name of
\* U1, which is no token of the real name; the reply is "correct"
C19_Witness ==
    /\ Replying("correct")
    /\ proc.pc = "check"
    /\ proc.about.challenge = "U1"
    /\ Val(proc.event).message = <<"a","n","n","i","e">>
    /\ \E p \in DOMAIN sent : p.kind = "correct" /\ p.user = "U2"

\* the sweep is writing the cleared user of the row it selected
SweepWrites ==
    /\ sched.pc = "save_write"
    /\ sched.next = "clear_send"
    /\ sched.in_db
    /\ sched'.pc = "clear_send"

\* the stored user still holds the challenge of the scanned row
StillStale(tbl, row) ==
    \E u \in DOMAIN tbl :
        /\ tbl[u].slack_id = row.user
        /\ tbl[u].challenge = row.challenge
        /\ tbl[u].challenge_datetime = row.at

\* C20 as claimed: the sweep clears a user's challenge and sends the timed-out
\* message only if, at the moment of its write, the stored challenge is still
\* the challenge it selected in its scan.
C20_SweepRechecksStoredState ==
    [][SweepWrites => StillStale(users, Val(sched.row))]_vars

\* the age of the challenge of a scanned row
Age(row) == now - row.at[1]

\* the sweep looks at the next row of its scan
SweepLooksAt(row) ==
    /\ sched.pc = "clear_next"
    /\ row \in sched.rows
    /\ sched'.rows = sched.rows \ {row}
    /\ sched'.pc \in {"clear_next", "clear_get_cu"}

\* the sweep is in the expiry of the row it selected
Expiring == sched.pc \in {"clear_get_cu", "clear_get_u", "clear_send"} \/
            (sched.pc \in {"save_get", "save_write"} /\ sched.next = "clear_send")

\* C21 as claimed: the sweep expires a challenge only when its age strictly
\* exceeds the configured timeout.
C21_ExpiresBeyondTimeout ==
    [][\A row \in sched.rows :
          (SweepLooksAt(row) /\ sched'.pc = "clear_get_cu") => Age(row) > CHALLENGE_TIMEOUT]_vars

\* C21 as amended: the sweep expires a scanned challenge only when its age is
\* at least the configured timeout; for a scanned challenge that is younger
\* the sweep changes nothing and sends nothing, and every write and every
\* timed-out message of the sweep is about a row of at least that age.
C21_ExpiresFromTimeout ==
    /\ [](Expiring => Age(Val(sched.row)) >= CHALLENGE_TIMEOUT)
    /\ [][\A row \in sched.rows : SweepLooksAt(row) =>
            /\ (sched'.pc = "clear_get_cu") = (Age(row) >= CHALLENGE_TIMEOUT)
            /\ sched'.pc = "clear_get_cu" => sched'.row = Some(row)
            /\ users' = users /\ sent' = sent]_vars

\* C21 witness: the sweep has selected a row whose age is exactly the timeout
\* while another user holds a younger challenge
C21_Witness ==
    /\ sched.pc = "clear_get_cu"
    /\ Age(Val(sched.row)) = CHALLENGE_TIMEOUT
    /\ \E u \in DOMAIN users :
          /\ users[u].challenge # NoId
          /\ users[u].challenge_datetime # None
          /\ now - users[u].challenge_datetime[1] < CHALLENGE_TIMEOUT

\* the sweep is done with the stale row it selected and turns to the next one
SweepLeavesRow ==
    /\ sched.row # None
    /\ sched'.row = None
    /\ sched'.pc = "clear_next"

\* the target of a scanned row is no longer stored while its user is
Dangling(tbl, row) == row.user \in DOMAIN tbl /\ row.challenge \notin DOMAIN tbl

\* C22 as claimed: a user whose challenge names a user that is no longer
\* stored is reset: when the sweep is done with the stale row of such a user,
\* the stored user has no challenge and no challenge_datetime.
C22_DanglingTargetIsReset ==
    [][(SweepLeavesRow /\ Dangling(users, Val(sched.row))) =>
            StoredIdle(users', Val(sched.row).user)]_vars

\* a record of the selected stale row is missing: its user or its target
RecordMissing(tbl, row) == row.user \notin DOMAIN tbl \/ row.challenge \notin DOMAIN tbl

\* C23: a stale challenge whose user or target record is missing is skipped
\* by the sweep: the thread does not end, nothing stored changes, nothing is
\* sent, and the sweep turns to the next row with the remaining rows of its
\* scan still to be handled.
C23_MissingRecordSkipped ==
    [][(sched.pc = "clear_get_u" /\ sched' # sched /\ RecordMissing(users, Val(sched.row))) =>
            /\ sched'.pc = "clear_next"
            /\ sched'.rows = sched.rows
            /\ sched'.row = None
            /\ users' = users
            /\ challenges' = challenges
            /\ sent' = sent]_vars

\* C23 witness: the sweep holds a selected stale row whose target is missing,
\* with a further stale row of the same scan waiting
C23_Witness ==
    /\ sched.pc = "clear_get_u"
    /\ sched.challenge_user = None
    /\ Dangling(users, Val(sched.row))
    /\ \E row \in sched.rows : row.at # None /\ overdue(row.at, now)

\* C24 as claimed: in every state the targets in a user's history are among
\* the currently eligible others of that user.
C24_HistoryWithinEligible ==
    \A slack_id \in DOMAIN users :
        HistoryOf(challenges, slack_id) \subseteq EligibleOthers(slack_id)

\* C24 as amended: a user's history never contains the user itself, and every
\* target in it was among the eligible others of that user as issue_challenge
\* read them for the pick; it can contain a user deleted since.
C24_HistoryWasEligible ==
    /\ [](\A row \in challenges : row[1] # row[2])
    /\ [][/\ (proc.pc = "iss_users" /\ proc'.pc = "iss_hist") =>
                proc'.all_users = EligibleOthers(Val(proc.user).slack_id)
          /\ \A row \in challenges' \ challenges :
                /\ PickStep
                /\ row[1] = Val(proc.user).slack_id
                /\ row[2] \in proc.all_users]_vars

\* C24 witness: a target recorded in the history of a stored user has been
\* deleted by the sync
C24_Witness ==
    \E row \in challenges : row[1] \in DOMAIN users /\ row[2] \notin DOMAIN users

\* C25 as claimed: no event is lost: while the Processor has not been asked
\* to stop, it never ends with an enqueued event left unhandled.
C25_NoEventLost ==
    ~stop["process"] => ~(Ended("process") /\ nEnq > nDone)

\* C26: an issue_challenge whose pick is loaded stores, for the user, a
\* challenge that is a member of the eligible others read for the pick and is
\* not the user's own id, together with a challenge_datetime, and sends exactly
\* one photo prompt; no stored user ever has its own id as its challenge.
C26_IssueStoresEligibleTarget ==
    /\ [](\A slack_id \in DOMAIN users : users[slack_id].challenge # slack_id)
    /\ [](Replying("prompt") =>
            /\ proc.pc \in {"save_get", "save_write", "send", "check"}
            /\ proc.replies = (IF proc.pc = "check" THEN 1 ELSE 0)
            /\ proc.new_challenge \in proc.all_users
            /\ proc.new_challenge # Val(proc.user).slack_id)
    /\ [][/\ (proc.pc = "iss_get" /\ proc' # proc /\ proc.new_challenge \in DOMAIN users) =>
                /\ proc'.pc = "save_get"
                /\ Val(proc'.message).kind = "prompt"
                /\ StoredIdle(users, Val(proc.user).slack_id)
          /\ (Replying("prompt") /\ proc.pc = "save_write" /\ proc' # proc) =>
                LET slack_id == Val(proc.user).slack_id
                IN  /\ proc'.pc = "send"
                    /\ slack_id \in DOMAIN users'
                    /\ users'[slack_id].challenge = proc.new_challenge
                    /\ users'[slack_id].challenge_datetime = proc.about.at
                    /\ proc.about.at # None
                    /\ \A x \in DOMAIN users' \ {slack_id} : x \in DOMAIN users /\ users'[x] = users[x]
          /\ (Replying("prompt") /\ proc' # proc) =>
                IF proc.pc = "send" THEN SendsOne("prompt") ELSE UNCHANGED sent]_vars

\* C26 witness: the photo prompt has been sent and the stored user holds the
\* pick as its challenge
C26_Witness ==
    /\ Replying("prompt")
    /\ proc.pc = "check"
    /\ Val(proc.user).slack_id \in DOMAIN users
    /\ users[Val(proc.user).slack_id].challenge = proc.new_challenge
    /\ \E p \in DOMAIN sent : p.kind = "prompt" /\ p.challenge = proc.new_challenge
                              /\ p.user = Val(proc.user).slack_id

\* a pass over a message of a registered direct channel that has a text and is
\* no mention of the bot with a text
DirectPass ==
    /\ PollPass
    /\ ~Val(mon'.last).subtype
    /\ Val(mon'.last).text # <<>>
    /\ Registered(Val(mon'.last).channel)
    /\ ~BotMention(Val(mon'.last).text)

OtherUsers(tbl, slack_id) == [x \in DOMAIN tbl \ {slack_id} |-> tbl[x]]

\* C28: the handling of a message of user A changes neither the stored row of
\* another user B nor a history row of B; before A is loaded the Processor
\* changes no table at all.
C28_OtherUsersUntouched ==
    [][proc' # proc =>
        IF proc.user = None
        THEN UNCHANGED <<users, challenges>>
        ELSE /\ OtherUsers(users', Val(proc.user).slack_id)
                    = OtherUsers(users, Val(proc.user).slack_id)
             /\ OtherRows(challenges', Val(proc.user).slack_id)
                    = OtherRows(challenges, Val(proc.user).slack_id)]_vars

\* C28 witness: a challenge has been issued to one user while another stored
\* user holds a challenge and history rows of its own
C28_Witness ==
    /\ Replying("prompt")
    /\ proc.pc = "check"
    /\ users[Val(proc.user).slack_id].challenge = proc.new_challenge
    /\ OtherRows(challenges, Val(proc.user).slack_id) # {}
    /\ \E x \in DOMAIN users \ {Val(proc.user).slack_id} : users[x].challenge # NoId

====
